---- MODULE Spec2Model ----
(***************************************************************************)
(* The contact-submission pipeline of the portfolio backend (src/main.py): *)
(* the ContactRequest validation done by the request framework, the        *)
(* submit_contact handler that appends one line to messages.txt, and the   *)
(* constant-returning catalog endpoints.                                   *)
(*                                                                         *)
(* Text is modelled as a sequence of one-character strings; the file       *)
(* messages.txt is the sequence of characters it holds.  A timestamp's     *)
(* digits are one token, ToString(t), t being the instant.                 *)
(***************************************************************************)
EXTENDS Integers, Sequences, FiniteSets, TLC

\* Number of HTTP requests of a run.
MaxReq == 2
\* Last instant of the wall clock.
MaxClock == 1

Req == 1..MaxReq
Instants == 0..MaxClock

TAB == "\t"
NL == "\n"

-----------------------------------------------------------------------------
(* Text helpers *)

IsPrefix(s, t) == Len(s) <= Len(t) /\ SubSeq(t, 1, Len(s)) = s

IsSuffix(s, t) == Len(s) <= Len(t) /\ SubSeq(t, Len(t) - Len(s) + 1, Len(t)) = s

Positions(s, c) == {i \in 1..Len(s) : s[i] = c}

Min(S) == CHOOSE x \in S : \A y \in S : x <= y

\* str.split(sep): the fields between the separators, empty ones included.
RECURSIVE Split(_, _)
Split(s, sep) ==
  IF Positions(s, sep) = {} THEN <<s>>
  ELSE LET i == Min(Positions(s, sep))
       IN  <<SubSeq(s, 1, i - 1)>> \o Split(SubSeq(s, i + 1, Len(s)), sep)

-----------------------------------------------------------------------------
(* The request body: the JSON values a caller can send *)

Absent == [kind |-> "absent", text |-> <<>>]
Null == [kind |-> "null", text |-> <<>>]
IsoNaive(t) == [kind |-> "str", text |-> <<ToString(t)>>]
IsoZulu(t) == [kind |-> "str", text |-> <<ToString(t), "Z">>]
UnixInt(t) == [kind |-> "int", text |-> <<ToString(t)>>]
Garbled == [kind |-> "str", text |-> <<"x">>]

\* The instants a caller supplies.
Supplied == {0}

RawTimestamps ==
  {Absent, Null, Garbled}
    \cup {IsoNaive(t) : t \in Supplied}
    \cup {IsoZulu(t) : t \in Supplied}
    \cup {UnixInt(t) : t \in Supplied}

Names == {<<>>, <<"n">>, <<"n", TAB>>}
Messages == {<<>>, <<"m">>, <<"m", NL, "x">>}
GoodEmail == <<"a", "@", "b", ".", "c">>
Emails ==
  {GoodEmail, <<"a", "@", "b">>, <<"a", "b">>, <<"@", "b", ".", "c">>,
   <<"a", "@", "@", "b", ".", "c">>, <<"a", "@", ".", "c">>}

Base == [name |-> <<"n">>, email |-> GoodEmail, message |-> <<"m">>, timestamp |-> IsoNaive(0)]

Differing(i) ==
  {f \in {"name", "email", "message", "timestamp"} : i[f] # Base[f]}

\* The request bodies of a run: the plain one and those differing from it in one field.
Inputs ==
  {i \in [name : Names, email : Emails, message : Messages, timestamp : RawTimestamps] :
     Cardinality(Differing(i)) <= 1}

NoInput == [name |-> <<>>, email |-> <<>>, message |-> <<>>,
            timestamp |-> [kind |-> "none", text |-> <<>>]]

-----------------------------------------------------------------------------
(* ContactRequest: the field validators *)

\* Field(..., min_length=1) with no length check.
min_length_unchecked(s) == TRUE

\* Field(..., min_length=1)
min_length(s) == Len(s) >= 1

\* email: str instead of EmailStr.
EmailStrAny(e) == TRUE

\* EmailStr: exactly one "@", a local part, a domain of at least two non-empty labels.
EmailStr(e) ==
  /\ Cardinality(Positions(e, "@")) = 1
  /\ LET at == Min(Positions(e, "@"))
         domain == SubSeq(e, at + 1, Len(e))
         labels == Split(domain, ".")
     IN  /\ at > 1
         /\ Len(labels) >= 2
         /\ \A k \in 1..Len(labels) : Len(labels[k]) >= 1

NoDatetime == [ok |-> FALSE, t |-> 0, tz |-> "none"]

InstantOf(tok) ==
  IF \E t \in Instants : ToString(t) = tok
  THEN CHOOSE t \in Instants : ToString(t) = tok
  ELSE -1

\* The datetime validator: ISO-8601 text (naive, or "Z" for UTC) or unix seconds (UTC);
\* null and anything else is an error.
parse_datetime(ts) ==
  IF ts.kind = "int" /\ Len(ts.text) = 1 /\ InstantOf(ts.text[1]) >= 0
  THEN [ok |-> TRUE, t |-> InstantOf(ts.text[1]), tz |-> "utc"]
  ELSE IF ts.kind = "str" /\ Len(ts.text) = 1 /\ InstantOf(ts.text[1]) >= 0
  THEN [ok |-> TRUE, t |-> InstantOf(ts.text[1]), tz |-> "naive"]
  ELSE IF ts.kind = "str" /\ Len(ts.text) = 2 /\ InstantOf(ts.text[1]) >= 0 /\ ts.text[2] = "Z"
  THEN [ok |-> TRUE, t |-> InstantOf(ts.text[1]), tz |-> "utc"]
  ELSE NoDatetime

\* default=datetime.utcnow(): one value taken when the class is declared.
default_frozen(clock) == [ok |-> TRUE, t |-> 0, tz |-> "naive"]

\* default_factory=datetime.utcnow, called when a model is built without the field.
default_factory(clock) == [ok |-> TRUE, t |-> clock, tz |-> "naive"]

timestamp_field(ts, clock) ==
  IF ts.kind = "absent" THEN default_factory(clock) ELSE parse_datetime(ts)

\* The fields of a request body that fail their validators.
ValidationErrors(body, clock) ==
  {f \in {"name"} : ~min_length(body.name)}
    \cup {f \in {"email"} : ~EmailStr(body.email)}
    \cup {f \in {"message"} : ~min_length(body.message)}
    \cup {f \in {"timestamp"} : ~timestamp_field(body.timestamp, clock).ok}

NoModel == [name |-> <<>>, email |-> <<>>, message |-> <<>>, timestamp |-> NoDatetime]

\* ContactRequest(**body): the validated model.
ContactRequest(body, clock) ==
  [name |-> body.name, email |-> body.email, message |-> body.message,
   timestamp |-> timestamp_field(body.timestamp, clock)]

-----------------------------------------------------------------------------
(* submit_contact: the pieces of the handler *)

\* datetime.isoformat(): the digits, and the offset of an aware value.
isoformat(dt) == <<ToString(dt.t)>> \o (IF dt.tz = "utc" THEN <<"+00:00">> ELSE <<>>)

\* f"{timestamp.isoformat()}\t{name}\t{email}\t{message}\n"
log_entry(m) ==
  isoformat(m.timestamp) \o <<TAB>> \o m.name \o <<TAB>> \o m.email \o <<TAB>>
    \o m.message \o <<NL>>

\* open(..., "w"): the file is emptied.
open_truncate(content) == <<>>

\* open("messages.txt", "a"): the content is kept, writes go to its end.
open_append(content) == content

\* The lengths a failing flush leaves behind: nothing, or all but the last character.
ShortWrites(text) == {0, Len(text) - 1}

\* No scoped release: a handle stays open when the write raised.
exit_leaky(open, r, raised) == IF raised THEN open ELSE open \ {r}

\* The end of the with block: the file is closed, whether the body raised or not.
with_exit(open, r, raised) == open \ {r}

NoResponse == [status |-> 0, detail |-> {}]
Success == [status |-> 200, detail |-> {"Thank you for reaching out!"}]
Unprocessable(fields) == [status |-> 422, detail |-> fields]
ServerError(cause) == [status |-> 500, detail |-> {"Failed to persist message", cause}]

Endpoints == {"/about", "/skills", "/projects", "/experience", "/"}
\* return ABOUT, SKILLS, PROJECTS, EXPERIENCE, or the list of endpoints.
Constant(e) == [status |-> 200, detail |-> {e}]

-----------------------------------------------------------------------------
VARIABLES
  pc,        \* where each invocation is
  body,      \* the request body of an invocation not yet validated
  request,   \* the validated ContactRequest of an invocation in its handler
  buffer,    \* the text each open file object has buffered
  response,  \* the response each invocation has returned
  log,       \* the content of messages.txt
  handles,   \* the invocations holding an open file object
  loop,      \* the invocation whose handler the event loop is running, 0 if none
  now        \* the wall clock

vars == <<pc, body, request, buffer, response, log, handles, loop, now>>

Terminal == {"accepted", "rejected", "failed", "served"}

Init ==
  /\ pc = [r \in Req |-> "idle"]
  /\ body = [r \in Req |-> NoInput]
  /\ request = [r \in Req |-> NoModel]
  /\ buffer = [r \in Req |-> <<>>]
  /\ response = [r \in Req |-> NoResponse]
  /\ log = <<>>
  /\ handles = {}
  /\ loop = 0
  /\ now = 0

\* Time passes.
Tick ==
  /\ now < MaxClock
  /\ now' = now + 1
  /\ UNCHANGED <<pc, body, request, buffer, response, log, handles, loop>>

\* A POST /contact arrives.
Receive(r, i) ==
  /\ loop = 0
  /\ pc[r] = "idle"
  /\ \A q \in Req : q < r => pc[q] # "idle"
  /\ pc' = [pc EXCEPT ![r] = "received"]
  /\ body' = [body EXCEPT ![r] = i]
  /\ UNCHANGED <<request, buffer, response, log, handles, loop, now>>

\* The framework builds the ContactRequest; a failing field ends the invocation with 422.
Validate(r) ==
  /\ loop = 0
  /\ pc[r] = "received"
  /\ LET errors == ValidationErrors(body[r], now)
     IN  IF errors = {}
         THEN /\ pc' = [pc EXCEPT ![r] = "validated"]
              /\ request' = [request EXCEPT ![r] = ContactRequest(body[r], now)]
              /\ response' = response
         ELSE /\ pc' = [pc EXCEPT ![r] = "rejected"]
              /\ request' = request
              /\ response' = [response EXCEPT ![r] = Unprocessable(errors)]
  /\ body' = [body EXCEPT ![r] = NoInput]
  /\ UNCHANGED <<buffer, log, handles, loop, now>>

\* The handler starts: it has no await, so the loop runs it to its end.  open() succeeds.
Open(r) ==
  /\ loop = 0
  /\ pc[r] = "validated"
  /\ loop' = r
  /\ log' = open_append(log)
  /\ handles' = handles \cup {r}
  /\ pc' = [pc EXCEPT ![r] = "open"]
  /\ UNCHANGED <<body, request, buffer, response, now>>

\* open() raises (read-only medium, permission denied): HTTP 500.
OpenFail(r) ==
  /\ loop = 0
  /\ pc[r] = "validated"
  /\ pc' = [pc EXCEPT ![r] = "failed"]
  /\ response' = [response EXCEPT ![r] = ServerError("EACCES")]
  /\ request' = [request EXCEPT ![r] = NoModel]
  /\ UNCHANGED <<body, buffer, log, handles, loop, now>>

\* f.write(log_entry): the text goes to the file object's buffer.
Write(r) ==
  /\ loop = r
  /\ pc[r] = "open"
  /\ buffer' = [buffer EXCEPT ![r] = log_entry(request[r])]
  /\ pc' = [pc EXCEPT ![r] = "written"]
  /\ UNCHANGED <<body, request, response, log, handles, loop, now>>

\* The with block ends: the buffer is flushed to the end of the file and the file closed.
Close(r) ==
  /\ loop = r
  /\ pc[r] = "written"
  /\ log' = log \o buffer[r]
  /\ buffer' = [buffer EXCEPT ![r] = <<>>]
  /\ handles' = with_exit(handles, r, FALSE)
  /\ pc' = [pc EXCEPT ![r] = "closed"]
  /\ UNCHANGED <<body, request, response, loop, now>>

\* The flush raises (disk full, I/O error) after the medium took the first k characters;
\* the file is closed all the same and the handler answers HTTP 500.
CloseFail(r) ==
  /\ loop = r
  /\ pc[r] = "written"
  /\ \E k \in ShortWrites(buffer[r]) : log' = log \o SubSeq(buffer[r], 1, k)
  /\ buffer' = [buffer EXCEPT ![r] = <<>>]
  /\ handles' = with_exit(handles, r, TRUE)
  /\ pc' = [pc EXCEPT ![r] = "failed"]
  /\ response' = [response EXCEPT ![r] = ServerError("ENOSPC")]
  /\ request' = [request EXCEPT ![r] = NoModel]
  /\ loop' = 0
  /\ UNCHANGED <<body, now>>

\* return {"status": "success", ...}
Return(r) ==
  /\ loop = r
  /\ pc[r] = "closed"
  /\ pc' = [pc EXCEPT ![r] = "accepted"]
  /\ response' = [response EXCEPT ![r] = Success]
  /\ request' = [request EXCEPT ![r] = NoModel]
  /\ loop' = 0
  /\ UNCHANGED <<body, buffer, log, handles, now>>

\* GET /about, /skills, /projects, /experience, /: a constant is returned.
CatalogGet(r, e) ==
  /\ loop = 0
  /\ pc[r] = "idle"
  /\ \A q \in Req : q < r => pc[q] # "idle"
  /\ pc' = [pc EXCEPT ![r] = "served"]
  /\ response' = [response EXCEPT ![r] = Constant(e)]
  /\ UNCHANGED <<body, request, buffer, log, handles, loop, now>>

Next ==
  \/ Tick
  \/ \E r \in Req, i \in Inputs : Receive(r, i)
  \/ \E r \in Req : Validate(r)
  \/ \E r \in Req : Open(r)
  \/ \E r \in Req : OpenFail(r)
  \/ \E r \in Req : Write(r)
  \/ \E r \in Req : Close(r)
  \/ \E r \in Req : CloseFail(r)
  \/ \E r \in Req : Return(r)
  \/ \E r \in Req, e \in Endpoints : CatalogGet(r, e)

Spec == Init /\ [][Next]_vars

-----------------------------------------------------------------------------
(* What a reader of the contract and of the log sees *)

\* The spec's email grammar: one "@", a non-empty local part, a "." in the domain.
SpecEmailOk(e) ==
  /\ Cardinality(Positions(e, "@")) = 1
  /\ Min(Positions(e, "@")) > 1
  /\ \E i \in Positions(e, ".") : i > Min(Positions(e, "@"))

\* The timestamp texts that denote a point in time.
KnownForms ==
  {IsoNaive(t) : t \in Instants} \cup {IsoZulu(t) : t \in Instants}
    \cup {UnixInt(t) : t \in Instants}

Unparseable(ts) == ts.kind \in {"str", "int"} /\ ts \notin KnownForms

FailsValidation(b) ==
  \/ b.name = <<>>
  \/ b.message = <<>>
  \/ ~SpecEmailOk(b.email)
  \/ Unparseable(b.timestamp)

\* The fields other than the timestamp pass their validators.
OtherwiseValid(b) == min_length(b.name) /\ EmailStr(b.email) /\ min_length(b.message)

\* The characters a step adds to the end of the log.
Appended == SubSeq(log', Len(log) + 1, Len(log'))

Front(s) == SubSeq(s, 1, Len(s) - 1)

\* The point in time an ISO-8601 text of the log denotes.
FromIso(field) ==
  IF Len(field) = 1 /\ InstantOf(field[1]) >= 0
  THEN [ok |-> TRUE, t |-> InstantOf(field[1]), tz |-> "naive"]
  ELSE IF Len(field) = 2 /\ InstantOf(field[1]) >= 0 /\ field[2] = "+00:00"
  THEN [ok |-> TRUE, t |-> InstantOf(field[1]), tz |-> "utc"]
  ELSE NoDatetime

\* The last newline-terminated line of a text that ends with a newline.
LastLine(s) == LET lines == Split(s, NL) IN lines[Len(lines) - 1]

NoDelimiter(m) ==
  \A c \in {TAB, NL} : Positions(m.name, c) = {} /\ Positions(m.message, c) = {}

Accepted == {r \in Req : pc[r] = "accepted"}

-----------------------------------------------------------------------------
(* The claims *)

\* C1: a submission whose input fails validation (empty name, empty message, malformed
\* email, unparseable timestamp) ends Rejected with a validation error; the step that
\* rejects it leaves the log and the open files as they were, and nothing follows it.
C1_InvalidRejected ==
  /\ [][\A r \in Req :
          (pc[r] = "received" /\ FailsValidation(body[r])) =>
            \/ pc'[r] = "received" /\ body'[r] = body[r]
            \/ /\ pc'[r] = "rejected"
               /\ response'[r].status = 422
               /\ response'[r].detail # {}
               /\ log' = log
               /\ handles' = handles]_vars
  /\ [][\A r \in Req :
          pc[r] = "rejected" => pc'[r] = "rejected" /\ response'[r] = response[r]]_vars

C1_Witness ==
  \E r \in Req :
    /\ pc[r] = "rejected"
    /\ response[r] = Unprocessable({"email"})
    /\ Len(log) > 0

\* C2: when no handler is running, the log holds exactly as many lines as there are
\* accepted submissions (stated for the runs in which no append has failed).
C2_OneLinePerAccepted ==
  (loop = 0 /\ \A r \in Req : pc[r] # "failed") =>
    Cardinality(Positions(log, NL)) = Cardinality(Accepted)

\* C3: while another submission is in flight, every change of the log appends the
\* complete record of exactly one invocation, the one whose handler is running, and only
\* that invocation holds the file.
C3_AppendAllOrNothing ==
  [][\A r \in Req :
       (loop = r /\ \E q \in Req \ {r} : pc[q] = "validated") =>
         /\ log' = log \/ log' = log \o log_entry(request[r])
         /\ handles' \subseteq {r}]_vars

\* C4: a submission whose append fails ends with HTTP 500 carrying the cause, and none
\* of its characters is in the log afterwards.
C4_FailureLeavesNoPartialLine ==
  [][\A r \in Req :
       (pc[r] # "failed" /\ pc'[r] = "failed") =>
         /\ response'[r].status = 500
         /\ response'[r].detail \cap {"EACCES", "ENOSPC"} # {}
         /\ log' = log]_vars

C6_AbsentOrNullDefaults ==
  [][\A r \in Req :
       (/\ pc[r] = "received"
        /\ pc'[r] # "received"
        /\ OtherwiseValid(body[r])
        /\ body[r].timestamp \in {Absent, Null}) =>
         /\ pc'[r] = "validated"
         /\ request'[r].timestamp = [ok |-> TRUE, t |-> now, tz |-> "naive"]]_vars

\* C6 as amended: an otherwise valid submission whose timestamp is absent passes
\* validation with the time of that validation as its timestamp; one whose timestamp is
\* null is rejected with 422 on the timestamp field; a supplied timestamp keeps its point
\* in time; and a completed append writes the validated timestamp, readable back from
\* the first field of the record.
C6_AbsentDefaultsToNow ==
  /\ [][\A r \in Req :
          (pc[r] = "received" /\ pc'[r] # "received" /\ OtherwiseValid(body[r])) =>
            /\ body[r].timestamp = Absent =>
                 /\ pc'[r] = "validated"
                 /\ request'[r].timestamp = [ok |-> TRUE, t |-> now, tz |-> "naive"]
            /\ body[r].timestamp = Null =>
                 /\ pc'[r] = "rejected"
                 /\ response'[r] = Unprocessable({"timestamp"})
            /\ body[r].timestamp \in KnownForms =>
                 /\ pc'[r] = "validated"
                 /\ request'[r].timestamp.ok
                 /\ request'[r].timestamp.t = InstantOf(body[r].timestamp.text[1])]_vars
  /\ [][\A r \in Req :
          (pc[r] = "written" /\ pc'[r] = "closed") =>
            FromIso(Split(Appended, TAB)[1]) = request[r].timestamp]_vars

\* A second record, stamped by default with an instant later than the start of the process.
C6_Witness ==
  \E r \in Req :
    /\ pc[r] = "closed"
    /\ request[r].timestamp = [ok |-> TRUE, t |-> 1, tz |-> "naive"]
    /\ Len(log) > Len(log_entry(request[r]))

\* C7: a completed append adds one newline-terminated line that splits on the tab into
\* exactly the four fields timestamp, name, email, message of the validated submission.
C7_RecordRoundTrips ==
  [][\A r \in Req :
       (pc[r] = "written" /\ pc'[r] = "closed") =>
         /\ Len(Appended) > 0
         /\ Positions(Appended, NL) = {Len(Appended)}
         /\ Split(Front(Appended), TAB)
              = <<isoformat(request[r].timestamp), request[r].name,
                  request[r].email, request[r].message>>]_vars

\* C8: in every step the log of before is a prefix of the log of after.
C8_AppendOnly == [][IsPrefix(log, log')]_vars

\* A later submission has the file open while the log holds an accepted record, another
\* was rejected or failed or a catalog endpoint was served.
C8_Witness ==
  /\ Len(log) > 0
  /\ \E r, q \in Req : pc[r] = "accepted" /\ pc[q] = "open"

\* C9: after the persistence failure of another invocation, a submission (with no tab or
\* newline in its fields) whose own append succeeds has its complete record as the last
\* line of the log.
C9_FailureAffectsOnlyItself ==
  [][\A r \in Req :
       (/\ pc[r] = "written"
        /\ pc'[r] = "closed"
        /\ NoDelimiter(request[r])
        /\ \E q \in Req \ {r} : pc[q] = "failed") =>
         LastLine(log') = Front(log_entry(request[r]))]_vars

\* C10: an invocation that has ended stays as it ended, Accepted (success returned) or
\* Rejected (422 or 500), and holds no open file; success is returned exactly by the
\* invocation whose complete record ends the log and whose file is closed already, and a
\* completed append is followed by nothing but that success.
C10_OutcomeAndRelease ==
  /\ [](\A r \in Req :
          /\ pc[r] \in Terminal => r \notin handles
          /\ response[r] = Success <=> pc[r] = "accepted"
          /\ pc[r] \in {"rejected", "failed"} <=> response[r].status \in {422, 500})
  /\ [][\A r \in Req :
          /\ pc[r] \in Terminal => pc'[r] = pc[r] /\ response'[r] = response[r]
          /\ (pc[r] # "accepted" /\ pc'[r] = "accepted") =>
               /\ pc[r] = "closed"
               /\ r \notin handles
               /\ IsSuffix(log_entry(request[r]), log)
          /\ (pc[r] = "written" /\ pc'[r] # "written") =>
               \/ pc'[r] = "closed" /\ Appended = log_entry(request[r]) /\ r \notin handles'
               \/ pc'[r] = "failed" /\ Appended # log_entry(request[r]) /\ r \notin handles'
          /\ (pc[r] = "closed" /\ pc'[r] # "closed") => pc'[r] = "accepted"]_vars

C10_Witness ==
  /\ handles = {}
  /\ \E r, q \in Req : pc[r] = "accepted" /\ pc[q] = "failed" /\ response[q].status = 500

====
